---- MODULE Spec2Model ----
(***************************************************************************)
(* Quiver-Hub: point cloud ingestion (REST handler and tRPC procedure),    *)
(* the in-memory lastScans buffer behind the polling endpoint, the         *)
(* socket.io rooms that broadcastPointCloud publishes to, and the effect   *)
(* of the PointCloudViewer component: its socket, its polling fallback and *)
(* its cleanup.                                                            *)
(*                                                                         *)
(* JavaScript values are tagged records [t |-> typeof, v |-> payload].     *)
(* A number n is held in tenths (Num(15) is 1.5), so Math.round is not the *)
(* identity.  Lookups in the credential store are assumed to return; the   *)
(* two store writes of the commit may throw.                               *)
(***************************************************************************)
EXTENDS Integers, Sequences, FiniteSets, TLC

(* ------------------------------ bounds -------------------------------- *)
\* scan-summary rows after which no further ingest request is submitted
MaxScans == 2

(* ------------------------------ values -------------------------------- *)
Drones == {"d1", "d2"}
Conns == {"c1", "c2"}
\* ingest handler instances: slot 1 serves the requests that are handled one at
\* a time, slot 2 a request that arrives while the one in slot 1 is in flight
Slots == {1, 2}
SerialSlots == {1}
Undefined == "undefined"

Num(n) == [t |-> "number", v |-> n]
StrVal == [t |-> "string", v |-> 0]
IsNumber(val) == val.t = "number"

\* src/server/rest-api.ts:98 and :78-85, in the order the loops visit them
requiredPointFields == <<"angle", "distance", "quality", "x", "y">>
requiredStatsFields ==
  <<"point_count", "valid_points", "min_distance", "max_distance",
    "avg_distance", "avg_quality">>

GoodPt(n) ==
  [angle |-> Num(n), distance |-> Num(n), quality |-> Num(n),
   x |-> Num(n), y |-> Num(n)]
BadPt(f) == [GoodPt(10) EXCEPT ![f] = StrVal]
\* a points element that is null (JSON null): reading a field of it throws
NullPt == [null |-> TRUE]
IsNullPt(p) == "null" \in DOMAIN p

MkStats(n, dist) ==
  [point_count |-> Num(n), valid_points |-> Num(n - 10), min_distance |-> Num(dist),
   max_distance |-> Num(dist + 10), avg_distance |-> Num(dist + 5),
   avg_quality |-> Num(474)]

ArrayOf(s) == [t |-> "array", v |-> s]
ObjectOf(r) == [t |-> "object", v |-> r]
UndefPoints == [t |-> "undefined", v |-> <<>>]
StringPoints == [t |-> "string", v |-> <<>>]
UndefStats == [t |-> "undefined", v |-> MkStats(10, 0)]
NumberStats == [t |-> "number", v |-> MkStats(10, 0)]

\* the api key table: key value -> the drone it is bound to
KeyDrone == [k \in {"k1", "k2"} |-> IF k = "k1" THEN "d1" ELSE "d2"]
KeyOf(d) == CHOOSE k \in DOMAIN KeyDrone : KeyDrone[k] = d

BatchIds == {1, 2}
BatchTimestamp(i) == IF i = 1 THEN "t1" ELSE "t2"
BatchPoints(i) ==
  IF i = 1 THEN ArrayOf(<<GoodPt(10), GoodPt(12)>>)
  ELSE ArrayOf(<<GoodPt(20), GoodPt(25), GoodPt(31)>>)
BatchStats(i) ==
  IF i = 1 THEN ObjectOf(MkStats(20, 104)) ELSE ObjectOf(MkStats(30, 205))

MkBody(k, d, i) ==
  [api_key |-> k, drone_id |-> d, timestamp |-> BatchTimestamp(i),
   points |-> BatchPoints(i), stats |-> BatchStats(i)]

\* well-formed requests: a key with the drone it is bound to
ValidBodies == {MkBody(KeyOf(d), d, i) : d \in Drones, i \in BatchIds}

\* six points, the sixth malformed: beyond the five the REST handler looks at
SixPoints ==
  ArrayOf(<<GoodPt(10), GoodPt(10), GoodPt(10), GoodPt(10), GoodPt(10), BadPt("x")>>)
BadPointsVals ==
  {UndefPoints, StringPoints, ArrayOf(<<BadPt("quality")>>),
   ArrayOf(<<GoodPt(10), BadPt("y")>>), SixPoints, ArrayOf(<<GoodPt(10), NullPt>>)}
BadStatsVals ==
  {UndefStats, NumberStats,
   ObjectOf([MkStats(20, 104) EXCEPT !.avg_distance = StrVal])}

BaseBody == MkBody("k1", "d1", 1)
OneFault(b) ==
  {[b EXCEPT !.api_key = k] : k \in {Undefined, "kx"}}
    \cup {[b EXCEPT !.drone_id = d] : d \in {Undefined, "d2"}}
    \cup {[b EXCEPT !.timestamp = Undefined]}
    \cup {[b EXCEPT !.points = p] : p \in BadPointsVals}
    \cup {[b EXCEPT !.stats = s] : s \in BadStatsVals}
\* a key bound to d1 used to claim d2, with and without a second fault
Impostor == [BaseBody EXCEPT !.drone_id = "d2"]
TwoFaults ==
  {[Impostor EXCEPT !.timestamp = Undefined],
   [Impostor EXCEPT !.points = StringPoints],
   [Impostor EXCEPT !.stats = ObjectOf([MkStats(20, 104) EXCEPT !.avg_distance = StrVal])],
   [BaseBody EXCEPT !.api_key = "kx", !.timestamp = Undefined]}
FaultyBodies == OneFault(BaseBody) \cup TwoFaults
AllBodies == ValidBodies \cup FaultyBodies

(* ---------------------------- state ----------------------------------- *)
VARIABLES
  dbUp,       \* getDb() yields a connection (DATABASE_URL is set)
  apiKeys,    \* table apiKeys: key -> [droneId, isActive]
  drones,     \* table drones: droneId -> [lastSeen, isActive]
  scans,      \* table scans: the rows in insertion order
  lastScans,  \* the Map lastScans: drone_id -> PointCloudMessage
  io,         \* the socket.io server has been initialised
  connected,  \* sockets currently connected
  rooms,      \* socket -> the drones whose room "drone:<id>" it has joined
  inbox,      \* socket -> the events emitted to it since it connected
  reqs,       \* ingest handler instances: slot -> [pc, via, body, apiKeyRecord, res]
  pulled,     \* the last response of GET /pointcloud/latest/:droneId
  accepted,   \* the ingests answered with success, in order: [via, message]
  viewer,     \* one PointCloudViewer effect: its closure variables and React state
  fetches,    \* the poll requests of the viewer that are in flight
  wire,       \* what the viewer's socket has emitted and the server not yet handled
  seen        \* how many events of its inbox the viewer's socket has handled

vars ==
  <<dbUp, apiKeys, drones, scans, lastScans, io, connected, rooms, inbox, reqs,
    pulled, accepted, viewer, fetches, wire, seen>>
clientVars == <<viewer, fetches, wire, seen>>
dbVars == <<dbUp, apiKeys, drones, scans>>
wsVars == <<io, connected, rooms, inbox>>

NoRecord == [key |-> "null", droneId |-> "null", isActive |-> FALSE]
NoRes == [status |-> "none", success |-> FALSE, error |-> ""]
IdleReq ==
  [pc |-> "idle", via |-> "rest", body |-> BaseBody, apiKeyRecord |-> NoRecord,
   res |-> NoRes]
NoPull == [drone_id |-> "none", status |-> "none", success |-> FALSE, data |-> <<>>]

\* poll requests the viewer may have in flight at once
MaxFetches == 2
\* the server-side socket of the viewer
ViewerConn == "c1"
\* the effect has not run yet: Home.tsx:129-139
NoViewer ==
  [phase |-> "init", droneId |-> "d1", socketInstance |-> "null",
   pollingInterval |-> FALSE, timers |-> 0, connected |-> FALSE, latestData |-> <<>>]
NoFetch == [st |-> "free", res |-> NoPull]

Init ==
  /\ dbUp \in BOOLEAN
  /\ apiKeys = [k \in DOMAIN KeyDrone |-> [droneId |-> KeyDrone[k], isActive |-> TRUE]]
  /\ drones = <<>>
  /\ scans = <<>>
  /\ lastScans = <<>>
  /\ io = TRUE
  /\ connected = {}
  /\ rooms = [c \in Conns |-> {}]
  /\ inbox = [c \in Conns |-> <<>>]
  /\ reqs = [r \in Slots |-> IdleReq]
  /\ pulled = NoPull
  /\ accepted = <<>>
  /\ viewer = NoViewer
  /\ fetches = [i \in 1..MaxFetches |-> NoFetch]
  /\ wire = <<>>
  /\ seen = 0

(* ------------------------ pure functions ------------------------------ *)
Min(S) == CHOOSE i \in S : \A j \in S : i <= j

\* Map.prototype.set / get on a map held as a function
MapSet(m, k, val) == [x \in (DOMAIN m) \cup {k} |-> IF x = k THEN val ELSE m[x]]
MapHas(m, k) == k \in DOMAIN m

\* Math.round on a number held in tenths: floor(n + 0.5)
MathRound(val) == Num(((val.v + 5) \div 10) * 10)

\* new Date(timestamp): the instant an ISO string denotes
NewDate(ts) == IF ts = "t1" THEN 1 ELSE IF ts = "t2" THEN 2 ELSE 0

Reply(status, ok, msg) == [status |-> status, success |-> ok, error |-> msg]

\* validateApiKey, src/server/db.ts:160-175
validateApiKey(db, keys, key) ==
  IF ~db THEN NoRecord
  ELSE IF key \notin DOMAIN keys \/ ~keys[key].isActive THEN NoRecord
  ELSE [key |-> key, droneId |-> keys[key].droneId, isActive |-> keys[key].isActive]

\* the required-fields test of the REST handler, rest-api.ts:38
RestMissingFields(b) ==
  \/ b.api_key = Undefined
  \/ b.drone_id = Undefined
  \/ b.timestamp = Undefined
  \/ b.points.t = "undefined"
  \/ b.stats.t = "undefined"

\* index of the first field of rcd (in the order of fields) that is no number, or 0
FirstNonNumber(rcd, fields) ==
  LET bad == {i \in 1..Len(fields) : ~IsNumber(rcd[fields[i]])}
  IN IF bad = {} THEN 0 ELSE Min(bad)

\* how many leading points the REST handler inspects, rest-api.ts:96
SampledPoints == 5
MinOf(a, b) == IF a < b THEN a ELSE b

\* the first sampled point at which the loop of rest-api.ts:96-107 stops: a
\* null one (typeof point[field] throws) or one with a non-numeric field; or 0
FirstBadPoint(pts) ==
  LET bad == {i \in 1..MinOf(Len(pts), SampledPoints) :
                IsNullPt(pts[i]) \/ FirstNonNumber(pts[i], requiredPointFields) # 0}
  IN IF bad = {} THEN 0 ELSE Min(bad)

\* RestValidate with the shape checks ahead of the identity check
RestValidateShapeFirst(b, apiKeyRecord) ==
  IF apiKeyRecord = NoRecord THEN Reply("401", FALSE, "Invalid API key")
  ELSE IF b.points.t # "array" THEN Reply("400", FALSE, "points must be an array")
  ELSE IF b.stats.t # "object" THEN Reply("400", FALSE, "stats must be an object")
  ELSE IF apiKeyRecord.droneId # b.drone_id
    THEN Reply("403", FALSE, "Drone ID mismatch")
  ELSE NoRes

\* the checks the REST handler runs once validateApiKey has returned,
\* rest-api.ts:47-107: the failure response, or NoRes when all pass; a TypeError
\* thrown by the point loop is answered by the catch block (rest-api.ts:148-155)
RestValidate(b, apiKeyRecord) ==
  IF apiKeyRecord = NoRecord THEN Reply("401", FALSE, "Invalid API key")
  ELSE IF apiKeyRecord.droneId # b.drone_id
    THEN Reply("403", FALSE, "Drone ID mismatch")
  ELSE IF b.points.t # "array" THEN Reply("400", FALSE, "points must be an array")
  ELSE IF b.stats.t # "object" THEN Reply("400", FALSE, "stats must be an object")
  ELSE IF FirstNonNumber(b.stats.v, requiredStatsFields) # 0
    THEN Reply("400", FALSE,
               "stats." \o requiredStatsFields[FirstNonNumber(b.stats.v, requiredStatsFields)]
                 \o " must be a number")
  ELSE IF FirstBadPoint(b.points.v) # 0
    THEN LET i == FirstBadPoint(b.points.v)
         IN IF IsNullPt(b.points.v[i])
              THEN Reply("500", FALSE, "Internal server error")
              ELSE Reply("400", FALSE,
                     "points[" \o ToString(i - 1) \o "]."
                       \o requiredPointFields[FirstNonNumber(b.points.v[i], requiredPointFields)]
                       \o " must be a number")
  ELSE NoRes

\* the zod input schema of pointcloud.ingest, routers.ts:35-58
TrpcInputOk(b) ==
  /\ b.api_key # Undefined
  /\ b.drone_id # Undefined
  /\ b.timestamp # Undefined
  /\ b.points.t = "array"
  /\ \A i \in 1..Len(b.points.v) :
       ~IsNullPt(b.points.v[i]) /\ FirstNonNumber(b.points.v[i], requiredPointFields) = 0
  /\ b.stats.t = "object"
  /\ FirstNonNumber(b.stats.v, requiredStatsFields) = 0

\* TrpcValidate accepting any active key, whatever drone it is bound to
TrpcValidateKeyOnly(b, apiKeyRecord) ==
  IF apiKeyRecord = NoRecord THEN Reply("throw", FALSE, "Invalid API key") ELSE NoRes

\* the checks of the tRPC mutation, routers.ts:61-69: the error thrown, or NoRes
TrpcValidate(b, apiKeyRecord) ==
  IF apiKeyRecord = NoRecord THEN Reply("throw", FALSE, "Invalid API key")
  ELSE IF apiKeyRecord.droneId # b.drone_id
    THEN Reply("throw", FALSE, "Drone ID mismatch")
  ELSE NoRes

\* const message: PointCloudMessage, rest-api.ts:127-132 and routers.ts:89-94
Message(b) ==
  [drone_id |-> b.drone_id, timestamp |-> b.timestamp, points |-> b.points.v,
   stats |-> b.stats.v]

\* upsertDrone leaving the record of a known droneId as it is
upsertDroneInsertOnly(db, tbl, b) ==
  IF ~db \/ MapHas(tbl, b.drone_id) THEN tbl
  ELSE MapSet(tbl, b.drone_id, [lastSeen |-> NewDate(b.timestamp), isActive |-> TRUE])

\* upsertDrone, db.ts:92-105: insert, or on a duplicate droneId update
upsertDrone(db, tbl, b) ==
  IF ~db THEN tbl
  ELSE MapSet(tbl, b.drone_id, [lastSeen |-> NewDate(b.timestamp), isActive |-> TRUE])

\* insertScan, db.ts:123-129, with the row built at rest-api.ts:117-124
insertScan(db, tbl, b) ==
  IF ~db THEN tbl
  ELSE Append(tbl,
         [droneId |-> b.drone_id, timestamp |-> NewDate(b.timestamp),
          pointCount |-> b.stats.v.point_count,
          minDistance |-> MathRound(b.stats.v.min_distance),
          maxDistance |-> MathRound(b.stats.v.max_distance),
          avgQuality |-> MathRound(b.stats.v.avg_quality)])

\* lastScansSet appending the new points to the entry already stored
lastScansAccumulate(m, message) ==
  IF message.drone_id \in DOMAIN m
    THEN [m EXCEPT ![message.drone_id] =
            [message EXCEPT !.points = m[message.drone_id].points \o message.points]]
    ELSE [x \in (DOMAIN m) \cup {message.drone_id} |->
            IF x = message.drone_id THEN message ELSE m[x]]

\* lastScansSet keeping the entry of the newest source only
lastScansSetEvict(m, message) == [x \in {message.drone_id} |-> message]

\* lastScans.set(drone_id, message), rest-api.ts:134
lastScansSet(m, message) == MapSet(m, message.drone_id, message)

\* getLatest answering an unknown drone with an empty batch
getLatestDefault(m, droneId) ==
  IF ~MapHas(m, droneId)
    THEN [drone_id |-> droneId, status |-> "200", success |-> TRUE,
          data |-> <<[drone_id |-> droneId, timestamp |-> "", points |-> <<>>,
                      stats |-> MkStats(0, 0)]>>]
    ELSE [drone_id |-> droneId, status |-> "200", success |-> TRUE, data |-> <<m[droneId]>>]

\* GET /pointcloud/latest/:droneId, rest-api.ts:174-191
getLatest(m, droneId) ==
  IF ~MapHas(m, droneId)
    THEN [drone_id |-> droneId, status |-> "404", success |-> FALSE, data |-> <<>>]
    ELSE [drone_id |-> droneId, status |-> "200", success |-> TRUE, data |-> <<m[droneId]>>]

\* the sockets in room "drone:<droneId>"
membersOf(rms, droneId) == {c \in Conns : droneId \in rms[c]}

PointCloudEvent(message) == [event |-> "pointcloud", data |-> message]
UpdateEvent(message) ==
  [event |-> "pointcloud_update",
   data |-> [drone_id |-> message.drone_id, timestamp |-> message.timestamp,
             point_count |-> message.stats.point_count]]

\* broadcastPointCloud emitting the full batch to every socket (io.emit)
broadcastToEveryone(up, conn, rms, inb, message) ==
  IF ~up THEN inb
  ELSE [c \in Conns |->
          inb[c] \o (IF c \in conn
                       THEN <<PointCloudEvent(message), UpdateEvent(message)>>
                       ELSE <<>>)]

\* broadcastPointCloud emitting the summary to the drone's room only
broadcastSummaryToRoom(up, conn, rms, inb, message) ==
  IF ~up THEN inb
  ELSE [c \in Conns |->
          inb[c] \o (IF c \in membersOf(rms, message.drone_id)
                       THEN <<PointCloudEvent(message), UpdateEvent(message)>>
                       ELSE <<>>)]

\* broadcastPointCloud, rest-api.ts:260-275: what each socket has received after it
broadcastPointCloud(up, conn, rms, inb, message) ==
  IF ~up THEN inb
  ELSE [c \in Conns |->
          inb[c]
            \o (IF c \in membersOf(rms, message.drone_id)
                  THEN <<PointCloudEvent(message)>> ELSE <<>>)
            \o (IF c \in conn THEN <<UpdateEvent(message)>> ELSE <<>>)]

\* socketLeave leaving the other rooms instead of the one named
socketLeaveOthers(joined, droneId) == joined \cap {droneId}

\* socket.join / socket.leave on the rooms of one socket, rest-api.ts:243, :248
socketJoin(joined, droneId) == joined \cup {droneId}
socketLeave(joined, droneId) == joined \ {droneId}
\* the rooms a socket is left in when it disconnects, rest-api.ts:251-253
roomsOnDisconnect(joined) == {}

(* ---- PointCloudViewer, src/client/src/pages/Home.tsx:136-219 ---------- *)
\* the handlers of the effect as functions of its closure variables and React
\* state v; pollingInterval is TRUE while the variable holds a running timer,
\* timers counts the interval timers the effect has created and not cancelled

\* onPointcloud showing whatever batch it is pushed
onPointcloudAny(v, data) == [v EXCEPT !.latestData = <<data>>]

\* socket.on("pointcloud"), Home.tsx:165-169
onPointcloud(v, data) ==
  IF data.drone_id = v.droneId THEN [v EXCEPT !.latestData = <<data>>] ELSE v

\* pollingInterval = setInterval(...), Home.tsx:190: one more timer runs and the
\* variable holds it
setInterval(v) == [v EXCEPT !.pollingInterval = TRUE, !.timers = @ + 1]

\* if (pollingInterval) clearInterval(pollingInterval), Home.tsx:152-155 and
\* :215-217: the timer the variable holds is cancelled
clearPolling(v) ==
  IF v.pollingInterval THEN [v EXCEPT !.pollingInterval = FALSE, !.timers = @ - 1] ELSE v

\* startPolling creating a timer whether or not one is running
startPollingUnguarded(v) == setInterval(v)

\* startPolling, Home.tsx:184-208: start the interval unless one is running
startPolling(v) == IF v.pollingInterval THEN v ELSE setInterval(v)

\* onConnect leaving the poll timer running
onConnectKeepPolling(v) == [v EXCEPT !.connected = TRUE]

\* socket.on("connect"), Home.tsx:147-156 (the subscribe it emits is in ViewerConnect)
onConnect(v) == clearPolling([v EXCEPT !.connected = TRUE])

\* onDisconnect only clearing the connected flag
onDisconnectNoFallback(v) == [v EXCEPT !.connected = FALSE]

\* socket.on("disconnect"), Home.tsx:158-163
onDisconnect(v) == startPolling([v EXCEPT !.connected = FALSE])

\* socket.on("connect_error"), Home.tsx:171-175
onConnectError(v) == startPolling([v EXCEPT !.connected = FALSE])

\* onPollResponse stopping the timer when the server has no data
onPollResponseStopOnAbsent(v, res) ==
  IF res.status = "200"
    THEN IF res.success /\ res.data # <<>>
           THEN [v EXCEPT !.latestData = res.data, !.connected = TRUE]
           ELSE v
  ELSE IF res.status = "404"
    THEN clearPolling([v EXCEPT !.connected = FALSE])
  ELSE v

\* the interval callback once fetch has resolved, Home.tsx:193-202
onPollResponse(v, res) ==
  IF res.status = "200"
    THEN IF res.success /\ res.data # <<>>
           THEN [v EXCEPT !.latestData = res.data, !.connected = TRUE]
           ELSE v
  ELSE IF res.status = "404" THEN [v EXCEPT !.connected = FALSE]
  ELSE v

\* the catch of the interval callback, Home.tsx:203-206
onPollError(v) == [v EXCEPT !.connected = FALSE]

\* socketInstance.disconnect(): socket.io-client closes the socket and, when it
\* was connected, runs the "disconnect" handler before it returns
socketDisconnect(v) ==
  IF v.socketInstance = "connected"
    THEN onDisconnect([v EXCEPT !.socketInstance = "closed"])
    ELSE [v EXCEPT !.socketInstance = "closed"]

\* cleanup clearing the interval before it disconnects the socket
cleanupClearFirst(v) ==
  LET cleared == [clearPolling(v) EXCEPT !.phase = "closed"]
  IN IF v.socketInstance # "null" THEN socketDisconnect(cleared) ELSE cleared

\* the cleanup of the effect, Home.tsx:210-219
cleanup(v) ==
  LET closed == IF v.socketInstance # "null" THEN socketDisconnect(v) ELSE v
  IN [clearPolling(closed) EXCEPT !.phase = "closed"]

\* what the cleanup puts on the socket: packets are only sent while connected
cleanupEmits(v) ==
  IF v.socketInstance = "connected"
    THEN <<[op |-> "unsubscribe", droneId |-> v.droneId],
           [op |-> "disconnect", droneId |-> v.droneId]>>
    ELSE <<>>

(* ----------------------------- actions -------------------------------- *)
InFlight(r) == reqs[r].pc \notin {"idle", "done"}
Goto(r, label) == reqs' = [reqs EXCEPT ![r].pc = label]
\* the handler in slot r sends its response and ends; the slot keeps the
\* request and its response until the next request takes it
Finish(r, response) ==
  reqs' = [reqs EXCEPT ![r].pc = "done", ![r].apiKeyRecord = NoRecord,
                       ![r].res = response]

\* a producer posts an ingest request on one of the two transports
Submit(r, via, b) ==
  /\ ~InFlight(r)
  /\ \A q \in Slots : q < r => InFlight(q)
  /\ Len(scans) < MaxScans
  /\ reqs' = [reqs EXCEPT ![r] =
                [pc |-> "received", via |-> via, body |-> b,
                 apiKeyRecord |-> NoRecord, res |-> NoRes]]
  /\ UNCHANGED <<dbVars, lastScans, wsVars, pulled, accepted, clientVars>>

\* RestReceive going on to the store writes without the key lookup
RestReceiveSkipAuth(r) ==
  /\ reqs[r].pc = "received" /\ reqs[r].via = "rest"
  /\ IF RestMissingFields(reqs[r].body)
       THEN Finish(r, Reply("400", FALSE,
              "Missing required fields: api_key, drone_id, timestamp, points, stats"))
       ELSE Goto(r, "upsertDrone")
  /\ UNCHANGED <<dbVars, lastScans, wsVars, pulled, accepted, clientVars>>

\* rest-api.ts:35-46: destructure the body, test the required fields, call
\* validateApiKey
RestReceive(r) ==
  /\ reqs[r].pc = "received" /\ reqs[r].via = "rest"
  /\ IF RestMissingFields(reqs[r].body)
       THEN Finish(r, Reply("400", FALSE,
              "Missing required fields: api_key, drone_id, timestamp, points, stats"))
       ELSE Goto(r, "validateApiKey")
  /\ UNCHANGED <<dbVars, lastScans, wsVars, pulled, accepted, clientVars>>

\* RestAuth updating the drone's liveness before the checks
RestAuthUpsertFirst(r) ==
  /\ reqs[r].pc = "validateApiKey" /\ reqs[r].via = "rest"
  /\ LET record == validateApiKey(dbUp, apiKeys, reqs[r].body.api_key)
         failure == RestValidate(reqs[r].body, record)
     IN IF failure # NoRes THEN Finish(r, failure)
        ELSE reqs' = [reqs EXCEPT ![r].pc = "insertScan",
                                  ![r].apiKeyRecord = record]
  /\ drones' = upsertDrone(dbUp, drones, reqs[r].body)
  /\ UNCHANGED <<dbUp, apiKeys, scans, lastScans, wsVars, pulled, accepted, clientVars>>

\* rest-api.ts:46-110: validateApiKey returns, the remaining checks run, and
\* upsertDrone is called
RestAuth(r) ==
  /\ reqs[r].pc = "validateApiKey" /\ reqs[r].via = "rest"
  /\ LET record == validateApiKey(dbUp, apiKeys, reqs[r].body.api_key)
         failure == RestValidate(reqs[r].body, record)
     IN IF failure # NoRes THEN Finish(r, failure)
        ELSE reqs' = [reqs EXCEPT ![r].pc = "upsertDrone",
                                  ![r].apiKeyRecord = record]
  /\ UNCHANGED <<dbVars, lastScans, wsVars, pulled, accepted, clientVars>>

\* routers.ts:35-61: the input schema is parsed before the mutation runs
TrpcReceive(r) ==
  /\ reqs[r].pc = "received" /\ reqs[r].via = "trpc"
  /\ IF ~TrpcInputOk(reqs[r].body)
       THEN Finish(r, Reply("throw", FALSE, "Input validation failed"))
       ELSE Goto(r, "validateApiKey")
  /\ UNCHANGED <<dbVars, lastScans, wsVars, pulled, accepted, clientVars>>

\* routers.ts:61-72
TrpcAuth(r) ==
  /\ reqs[r].pc = "validateApiKey" /\ reqs[r].via = "trpc"
  /\ LET record == validateApiKey(dbUp, apiKeys, reqs[r].body.api_key)
         failure == TrpcValidate(reqs[r].body, record)
     IN IF failure # NoRes THEN Finish(r, failure)
        ELSE reqs' = [reqs EXCEPT ![r].pc = "upsertDrone",
                                  ![r].apiKeyRecord = record]
  /\ UNCHANGED <<dbVars, lastScans, wsVars, pulled, accepted, clientVars>>

\* what a handler answers when a store call throws: the catch block of the
\* REST handler (rest-api.ts:148-155), the rethrown error of the mutation
StoreFailure(via) ==
  IF via = "rest" THEN Reply("500", FALSE, "Internal server error")
  ELSE Reply("throw", FALSE, "store error")

\* await upsertDrone(...), rest-api.ts:110-114 and routers.ts:72-76: the insert
\* throws, or it is applied and the select after it throws, or both return
UpsertDroneStep(r) ==
  /\ reqs[r].pc = "upsertDrone"
  /\ \/ /\ Finish(r, StoreFailure(reqs[r].via))
        /\ UNCHANGED drones
     \/ /\ Finish(r, StoreFailure(reqs[r].via))
        /\ drones' = upsertDrone(dbUp, drones, reqs[r].body)
     \/ /\ Goto(r, "insertScan")
        /\ drones' = upsertDrone(dbUp, drones, reqs[r].body)
  /\ UNCHANGED <<dbUp, apiKeys, scans, lastScans, wsVars, pulled, accepted, clientVars>>

\* InsertScanStep broadcasting the batch although the insert failed
InsertScanStepBroadcast(r) ==
  /\ reqs[r].pc = "insertScan"
  /\ \/ /\ Finish(r, StoreFailure(reqs[r].via))
        /\ inbox' = broadcastPointCloud(io, connected, rooms, inbox, Message(reqs[r].body))
        /\ UNCHANGED scans
     \/ /\ Goto(r, "commit")
        /\ scans' = insertScan(dbUp, scans, reqs[r].body)
        /\ UNCHANGED inbox
  /\ UNCHANGED <<dbUp, apiKeys, drones, lastScans, io, connected, rooms, pulled, accepted, clientVars>>

\* await insertScan(...), rest-api.ts:117-124 and routers.ts:79-86
InsertScanStep(r) ==
  /\ reqs[r].pc = "insertScan"
  /\ \/ /\ Finish(r, StoreFailure(reqs[r].via))
        /\ UNCHANGED scans
     \/ /\ Goto(r, "commit")
        /\ scans' = insertScan(dbUp, scans, reqs[r].body)
  /\ UNCHANGED <<dbUp, apiKeys, drones, lastScans, wsVars, pulled, accepted, clientVars>>

\* rest-api.ts:126-147: build the message, store it, broadcast it, answer 200
RestCommit(r) ==
  /\ reqs[r].pc = "commit" /\ reqs[r].via = "rest"
  /\ lastScans' = lastScansSet(lastScans, Message(reqs[r].body))
  /\ inbox' = broadcastPointCloud(io, connected, rooms, inbox, Message(reqs[r].body))
  /\ Finish(r, Reply("200", TRUE, ""))
  /\ accepted' = Append(accepted, [via |-> "rest", message |-> Message(reqs[r].body)])
  /\ UNCHANGED <<dbVars, io, connected, rooms, pulled, clientVars>>

\* routers.ts:88-97: build the message, broadcast it, return success
TrpcCommit(r) ==
  /\ reqs[r].pc = "commit" /\ reqs[r].via = "trpc"
  /\ inbox' = broadcastPointCloud(io, connected, rooms, inbox, Message(reqs[r].body))
  /\ Finish(r, Reply("return", TRUE, ""))
  /\ accepted' = Append(accepted, [via |-> "trpc", message |-> Message(reqs[r].body)])
  /\ UNCHANGED <<dbVars, lastScans, io, connected, rooms, pulled, clientVars>>

\* GET /pointcloud/latest/:droneId, rest-api.ts:174-191
Pull(d) ==
  /\ pulled' = getLatest(lastScans, d)
  /\ UNCHANGED <<dbVars, lastScans, wsVars, reqs, accepted, clientVars>>

\* an administrator deactivates a key (the credential store is external)
Revoke(k) ==
  /\ apiKeys[k].isActive
  /\ apiKeys' = [apiKeys EXCEPT ![k].isActive = FALSE]
  /\ UNCHANGED <<dbUp, drones, scans, lastScans, wsVars, reqs, pulled, accepted, clientVars>>

\* io.on('connection'), rest-api.ts:238-239: a new socket, in no drone room
Connect(c) ==
  /\ io /\ c \notin connected
  /\ connected' = connected \cup {c}
  /\ rooms' = [rooms EXCEPT ![c] = {}]
  /\ inbox' = [inbox EXCEPT ![c] = <<>>]
  /\ UNCHANGED <<dbVars, lastScans, io, reqs, pulled, accepted, clientVars>>

\* socket.on('subscribe'), rest-api.ts:241-244
Subscribe(c, d) ==
  /\ c \in connected
  /\ rooms' = [rooms EXCEPT ![c] = socketJoin(@, d)]
  /\ UNCHANGED <<dbVars, lastScans, io, connected, inbox, reqs, pulled, accepted, clientVars>>

\* socket.on('unsubscribe'), rest-api.ts:246-249
Unsubscribe(c, d) ==
  /\ c \in connected
  /\ rooms' = [rooms EXCEPT ![c] = socketLeave(@, d)]
  /\ UNCHANGED <<dbVars, lastScans, io, connected, inbox, reqs, pulled, accepted, clientVars>>

\* socket.on('disconnect'), rest-api.ts:251-253: the handler only logs;
\* socket.io has taken the socket out of its rooms
Disconnect(c) ==
  /\ c \in connected
  /\ connected' = connected \ {c}
  /\ rooms' = [rooms EXCEPT ![c] = roomsOnDisconnect(@)]
  /\ inbox' = [inbox EXCEPT ![c] = <<>>]
  /\ UNCHANGED <<dbVars, lastScans, io, reqs, pulled, accepted, clientVars>>

ingestVars == <<dbVars, lastScans, reqs, pulled, accepted>>
Retrying(v) == v.phase = "active" /\ v.socketInstance \in {"opening", "disconnected"}

\* the effect runs for drone d, Home.tsx:136-181: io() returns a socket that is
\* opening, or it throws and the catch block starts polling
ViewerMount(d) ==
  /\ viewer.phase = "init"
  /\ \/ viewer' = [viewer EXCEPT !.phase = "active", !.droneId = d,
                                 !.socketInstance = "opening"]
     \/ viewer' = startPolling([viewer EXCEPT !.phase = "active", !.droneId = d,
                                              !.socketInstance = "null"])
  /\ UNCHANGED <<ingestVars, wsVars, fetches, wire, seen>>

\* ViewerConnect emitting subscribe on the first handshake only
ViewerConnectSubscribeOnce ==
  /\ Retrying(viewer)
  /\ io /\ ViewerConn \notin connected
  /\ viewer' = onConnect([viewer EXCEPT !.socketInstance = "connected"])
  /\ connected' = connected \cup {ViewerConn}
  /\ rooms' = [rooms EXCEPT ![ViewerConn] = {}]
  /\ inbox' = [inbox EXCEPT ![ViewerConn] = <<>>]
  /\ wire' = IF viewer.socketInstance = "opening"
               THEN <<[op |-> "subscribe", droneId |-> viewer.droneId]>> ELSE <<>>
  /\ seen' = 0
  /\ UNCHANGED <<ingestVars, io, fetches>>

\* the handshake (first or a reconnect) succeeds: the server has a new socket
\* in no room (rest-api.ts:238-239) and the "connect" handler runs and emits
\* subscribe (Home.tsx:147-156)
ViewerConnect ==
  /\ Retrying(viewer)
  /\ io /\ ViewerConn \notin connected
  /\ viewer' = onConnect([viewer EXCEPT !.socketInstance = "connected"])
  /\ connected' = connected \cup {ViewerConn}
  /\ rooms' = [rooms EXCEPT ![ViewerConn] = {}]
  /\ inbox' = [inbox EXCEPT ![ViewerConn] = <<>>]
  /\ wire' = <<[op |-> "subscribe", droneId |-> viewer.droneId]>>
  /\ seen' = 0
  /\ UNCHANGED <<ingestVars, io, fetches>>

\* a handshake attempt fails: "connect_error", Home.tsx:171-175; socket.io keeps
\* retrying
ViewerConnectError ==
  /\ Retrying(viewer)
  /\ viewer' = onConnectError(viewer)
  /\ UNCHANGED <<ingestVars, wsVars, fetches, wire, seen>>

\* the connection drops: the client runs "disconnect" (Home.tsx:158-163) and
\* will retry; the server's socket leaves its rooms (rest-api.ts:251-253); what
\* was in transit either way is lost
ViewerDisconnect ==
  /\ viewer.phase = "active" /\ viewer.socketInstance = "connected"
  /\ viewer' = onDisconnect([viewer EXCEPT !.socketInstance = "disconnected"])
  /\ connected' = connected \ {ViewerConn}
  /\ rooms' = [rooms EXCEPT ![ViewerConn] = roomsOnDisconnect(@)]
  /\ inbox' = [inbox EXCEPT ![ViewerConn] = <<>>]
  /\ wire' = <<>>
  /\ seen' = 0
  /\ UNCHANGED <<ingestVars, io, fetches>>

\* the server handles the next packet of the viewer's socket: subscribe
\* (rest-api.ts:241-244), unsubscribe (246-249) or the client's disconnect (251-253)
ServerReceive ==
  /\ wire # <<>> /\ ViewerConn \in connected
  /\ wire' = Tail(wire)
  /\ IF Head(wire).op = "subscribe"
       THEN /\ rooms' = [rooms EXCEPT ![ViewerConn] = socketJoin(@, Head(wire).droneId)]
            /\ UNCHANGED <<connected, inbox>>
     ELSE IF Head(wire).op = "unsubscribe"
       THEN /\ rooms' = [rooms EXCEPT ![ViewerConn] = socketLeave(@, Head(wire).droneId)]
            /\ UNCHANGED <<connected, inbox>>
     ELSE /\ connected' = connected \ {ViewerConn}
          /\ rooms' = [rooms EXCEPT ![ViewerConn] = roomsOnDisconnect(@)]
          /\ inbox' = [inbox EXCEPT ![ViewerConn] = <<>>]
  /\ UNCHANGED <<ingestVars, io, viewer, fetches, seen>>

\* the viewer's socket handles the next event it was sent; it has a handler
\* for "pointcloud" only (Home.tsx:165-169)
ViewerPush ==
  /\ viewer.phase = "active" /\ viewer.socketInstance = "connected"
  /\ seen < Len(inbox[ViewerConn])
  /\ seen' = seen + 1
  /\ viewer' = IF inbox[ViewerConn][seen + 1].event = "pointcloud"
                 THEN onPointcloud(viewer, inbox[ViewerConn][seen + 1].data)
                 ELSE viewer
  /\ UNCHANGED <<ingestVars, wsVars, fetches, wire>>

\* the interval fires and the callback sends its fetch, Home.tsx:190-192
PollTick(i) ==
  /\ viewer.timers > 0
  /\ fetches[i].st = "free"
  /\ \A j \in 1..MaxFetches : j < i => fetches[j].st # "free"
  /\ fetches' = [fetches EXCEPT ![i] = [st |-> "sent", res |-> NoPull]]
  /\ UNCHANGED <<ingestVars, wsVars, viewer, wire, seen>>

\* the server answers poll request i: GET /pointcloud/latest/:droneId
PollServe(i) ==
  /\ fetches[i].st = "sent"
  /\ fetches' = [fetches EXCEPT ![i] =
                   [st |-> "answered", res |-> getLatest(lastScans, viewer.droneId)]]
  /\ UNCHANGED <<ingestVars, wsVars, viewer, wire, seen>>

\* poll request i resolves and the callback handles the response, Home.tsx:193-202
PollResolve(i) ==
  /\ fetches[i].st = "answered"
  /\ viewer' = onPollResponse(viewer, fetches[i].res)
  /\ fetches' = [fetches EXCEPT ![i] = NoFetch]
  /\ UNCHANGED <<ingestVars, wsVars, wire, seen>>

\* poll request i fails on the network: the catch of the callback, Home.tsx:203-206
PollFail(i) ==
  /\ fetches[i].st \in {"sent", "answered"}
  /\ viewer' = onPollError(viewer)
  /\ fetches' = [fetches EXCEPT ![i] = NoFetch]
  /\ UNCHANGED <<ingestVars, wsVars, wire, seen>>

\* the component unmounts or its droneId changes: the cleanup, Home.tsx:210-219
ViewerTeardown ==
  /\ viewer.phase = "active"
  /\ viewer' = cleanup(viewer)
  /\ wire' = wire \o cleanupEmits(viewer)
  /\ UNCHANGED <<ingestVars, wsVars, fetches, seen>>

\* the viewer: its effect, its socket and its poll requests
Viewer ==
  \/ \E d \in {"d1"} : ViewerMount(d)
  \/ ViewerConnect
  \/ ViewerConnectError
  \/ ViewerDisconnect
  \/ ServerReceive
  \/ ViewerPush
  \/ \E i \in 1..MaxFetches : PollTick(i)
  \/ \E i \in 1..MaxFetches : PollServe(i)
  \/ \E i \in 1..MaxFetches : PollResolve(i)
  \/ \E i \in 1..MaxFetches : PollFail(i)
  \/ ViewerTeardown

\* the ingest handlers of both transports, fed requests drawn from bodies
IngestOn(slots, bodies) ==
  \/ \E r \in slots, via \in {"rest", "trpc"}, b \in bodies : Submit(r, via, b)
  \/ \E r \in slots : RestReceive(r)
  \/ \E r \in slots : RestAuth(r)
  \/ \E r \in slots : TrpcReceive(r)
  \/ \E r \in slots : TrpcAuth(r)
  \/ \E r \in slots : UpsertDroneStep(r)
  \/ \E r \in slots : InsertScanStep(r)
  \/ \E r \in slots : RestCommit(r)
  \/ \E r \in slots : TrpcCommit(r)
\* the same, each request handled to its end before the next arrives
Ingest(bodies) == IngestOn(SerialSlots, bodies)

\* the socket events of the viewers
Sockets ==
  \/ \E c \in Conns : Connect(c)
  \/ \E c \in Conns, d \in Drones : Subscribe(c, d)
  \/ \E c \in Conns, d \in Drones : Unsubscribe(c, d)
  \/ \E c \in Conns : Disconnect(c)

\* a server reached from Init by two connects and one subscribe: c1 views d1,
\* c2 is connected and has subscribed to nothing
InitViewers ==
  /\ dbUp \in BOOLEAN
  /\ apiKeys = [k \in DOMAIN KeyDrone |-> [droneId |-> KeyDrone[k], isActive |-> TRUE]]
  /\ drones = <<>>
  /\ scans = <<>>
  /\ lastScans = <<>>
  /\ io = TRUE
  /\ connected = Conns
  /\ rooms = [c \in Conns |-> IF c = "c1" THEN {"d1"} ELSE {}]
  /\ inbox = [c \in Conns |-> <<>>]
  /\ reqs = [r \in Slots |-> IdleReq]
  /\ pulled = NoPull
  /\ accepted = <<>>
  /\ viewer = NoViewer
  /\ fetches = [i \in 1..MaxFetches |-> NoFetch]
  /\ wire = <<>>
  /\ seen = 0

\* well-formed ingests on both transports, and pulls, with two viewers connected
Next == Ingest(ValidBodies) \/ \E d \in Drones : Pull(d)
Spec == InitViewers /\ [][Next]_vars

\* well-formed and faulty ingests on both transports while keys are revoked
NextValidate == Ingest(AllBodies) \/ \E k \in DOMAIN KeyDrone : Revoke(k)
SpecValidate == InitViewers /\ [][NextValidate]_vars

\* one batch per drone, ingested on either transport while viewers connect,
\* subscribe, unsubscribe and disconnect
PushBodies == {MkBody("k1", "d1", 1), MkBody("k2", "d2", 2)}
NextPush == Ingest(PushBodies) \/ Sockets
SpecPush == Init /\ [][NextPush]_vars

\* ingests of d2, a well-formed one of d1, and two that name d1 and are refused
\* (the key of d2 claiming d1, a malformed point), interleaved with pulls
PullBodies ==
  {MkBody("k2", "d2", 1), MkBody("k2", "d2", 2), MkBody("k1", "d1", 1),
   [MkBody("k2", "d2", 1) EXCEPT !.drone_id = "d1"],
   [BaseBody EXCEPT !.points = ArrayOf(<<BadPt("quality")>>)]}
NextPull == Ingest(PullBodies) \/ \E d \in Drones : Pull(d)
SpecPull == InitViewers /\ [][NextPull]_vars

\* two batches of d1, ingested on either transport while one viewer of d1
\* connects, falls back to polling, reconnects and is torn down
ViewerBodies == {MkBody("k1", "d1", 1), MkBody("k1", "d1", 2)}
InitViewer == Init /\ dbUp
NextViewer == Ingest(ViewerBodies) \/ Viewer
SpecViewer == InitViewer /\ [][NextViewer]_vars

\* a viewer whose socket never connects: it polls while batches are ingested;
\* the interval keeps firing, and every poll request is answered and resolves
NextFallback ==
  \/ Ingest(ViewerBodies)
  \/ \E d \in {"d1"} : ViewerMount(d)
  \/ ViewerConnectError
  \/ \E i \in 1..MaxFetches : PollTick(i)
  \/ \E i \in 1..MaxFetches : PollServe(i)
  \/ \E i \in 1..MaxFetches : PollResolve(i)
SpecFallback ==
  /\ InitViewer
  /\ [][NextFallback]_vars
  /\ WF_vars(\E i \in 1..MaxFetches : PollTick(i))
  /\ WF_vars(\E i \in 1..MaxFetches : PollServe(i))
  /\ WF_vars(\E i \in 1..MaxFetches : PollResolve(i))

\* the handler in slot r runs its next continuation
HandlerStep(r) ==
  \/ RestReceive(r) \/ RestAuth(r) \/ TrpcReceive(r) \/ TrpcAuth(r)
  \/ UpsertDroneStep(r) \/ InsertScanStep(r) \/ RestCommit(r) \/ TrpcCommit(r)
\* SpecValidate where every awaited call of a handler returns or throws
SpecValidateFair ==
  /\ InitViewers
  /\ [][NextValidate]_vars
  /\ \A r \in Slots : WF_vars(HandlerStep(r))

\* a viewer of d1 on a socket that the server is also asked to put into other
\* rooms (socket.on("subscribe") takes any drone id), while batches of d1 and
\* d2 are ingested
NextFilter ==
  \/ Ingest(PushBodies)
  \/ \E d \in {"d1"} : ViewerMount(d)
  \/ ViewerConnect
  \/ ServerReceive
  \/ ViewerPush
  \/ \E d \in Drones : Subscribe(ViewerConn, d)
SpecFilter == InitViewer /\ [][NextFilter]_vars

\* well-formed ingests of both drones, and ingests whose key is bound to the
\* other drone than the one they name, on both transports while keys are revoked
AuthBodies ==
  ValidBodies \cup {Impostor, [MkBody("k2", "d2", 2) EXCEPT !.drone_id = "d1"]}
NextAuth == Ingest(AuthBodies) \/ \E k \in DOMAIN KeyDrone : Revoke(k)
SpecAuth == InitViewers /\ [][NextAuth]_vars

\* a request arrives while no handler has used its slot; the one for slot 2
\* arrives after the handler of slot 1 has run up to its first await
SubmitOverlapping(r, via, b) ==
  /\ reqs[r].pc = "idle"
  /\ r # 1 => reqs[1].pc \notin {"idle", "received"}
  /\ Submit(r, via, b)

\* two batches of d1 posted so that their handling overlaps: every await of
\* either handler may return before or after the awaits of the other
RaceBodies == {MkBody("k1", "d1", 1), MkBody("k1", "d1", 2)}
NextRace ==
  \/ \E r \in Slots, via \in {"rest", "trpc"}, b \in RaceBodies : SubmitOverlapping(r, via, b)
  \/ \E r \in Slots : RestReceive(r)
  \/ \E r \in Slots : RestAuth(r)
  \/ \E r \in Slots : TrpcReceive(r)
  \/ \E r \in Slots : TrpcAuth(r)
  \/ \E r \in Slots : UpsertDroneStep(r)
  \/ \E r \in Slots : InsertScanStep(r)
  \/ \E r \in Slots : RestCommit(r)
  \/ \E r \in Slots : TrpcCommit(r)
SpecRace == InitViewers /\ [][NextRace]_vars

(* ------------------------------ claims -------------------------------- *)
Max(S) == CHOOSE i \in S : \A j \in S : j <= i
Last(q) == q[Len(q)]
\* the accepted REST ingests of drone d, as indices into accepted
RestAcceptedFor(d) ==
  {i \in 1..Len(accepted) : accepted[i].via = "rest" /\ accepted[i].message.drone_id = d}
Found(d, message) ==
  [drone_id |-> d, status |-> "200", success |-> TRUE, data |-> <<message>>]

\* C1: once the REST endpoint has accepted a batch of drone d, the polling
\* endpoint answers for d with exactly the batch it accepted last (timestamp,
\* points and stats), and whatever a pull has returned for d is one accepted
\* batch as it was sent, never two of them merged.
C1_OverwriteNotAccumulate ==
  \A d \in Drones :
    LET idx == RestAcceptedFor(d)
    IN /\ idx # {} => getLatest(lastScans, d) = Found(d, accepted[Max(idx)].message)
       /\ (pulled.drone_id = d /\ pulled.status = "200")
            => \E i \in idx : pulled = Found(d, accepted[i].message)

\* two different batches of one drone were accepted over REST, and a pull
\* returned the second
C1_Witness ==
  \E d \in Drones :
    \E i \in RestAcceptedFor(d), j \in RestAcceptedFor(d) :
      /\ i < j /\ j = Max(RestAcceptedFor(d))
      /\ accepted[i].message # accepted[j].message
      /\ pulled = Found(d, accepted[j].message)

\* the credential store holds the key of b as active and bound to another
\* drone than the one b claims
ClaimsOtherDrone(b) ==
  /\ dbUp
  /\ b.api_key \in DOMAIN apiKeys
  /\ apiKeys[b.api_key].isActive
  /\ b.drone_id # Undefined
  /\ b.drone_id # apiKeys[b.api_key].droneId
IsIdentityMismatch(via, res) ==
  /\ ~res.success
  /\ res.error = "Drone ID mismatch"
  /\ res.status = (IF via = "rest" THEN "403" ELSE "throw")
TopLevelPresent(b) ==
  /\ b.api_key # Undefined /\ b.drone_id # Undefined /\ b.timestamp # Undefined
  /\ b.points.t # "undefined" /\ b.stats.t # "undefined"
\* b has the shape the ingest interface documents
WellTyped(b) ==
  /\ TopLevelPresent(b)
  /\ b.points.t = "array" /\ b.stats.t = "object"
  /\ \A i \in 1..Len(b.points.v) :
       /\ ~IsNullPt(b.points.v[i])
       /\ \A f \in {"angle", "distance", "quality", "x", "y"} : b.points.v[i][f].t = "number"
  /\ \A f \in {"point_count", "valid_points", "min_distance", "max_distance",
               "avg_distance", "avg_quality"} : b.stats.v[f].t = "number"

KeyInactive(b) ==
  dbUp /\ b.api_key \in DOMAIN apiKeys /\ ~apiKeys[b.api_key].isActive
IsInvalidApiKey(via, res) ==
  /\ ~res.success
  /\ res.error = "Invalid API key"
  /\ res.status = (IF via = "rest" THEN "401" ELSE "throw")

\* C3: a request whose key matches a credential record that is inactive while
\* the request is validated ends rejected with InvalidApiKey, and in no other way.
C3_InactiveKeyRejected ==
  [][\A r \in Slots :
       (/\ reqs[r].pc \in {"received", "validateApiKey"}
        /\ KeyInactive(reqs[r].body)
        /\ reqs'[r].pc # reqs[r].pc)
         => \/ reqs'[r].pc = "validateApiKey"
            \/ reqs'[r].pc = "done" /\ IsInvalidApiKey(reqs[r].via, reqs'[r].res)]_vars

IsValidationRejection(res) ==
  \/ res.status \in {"400", "401", "403"}
  \/ res.status = "throw"
       /\ res.error \in {"Invalid API key", "Drone ID mismatch", "Input validation failed"}

\* C4: a request rejected in the validation stage changes nothing: every step a
\* handler takes before its checks have passed leaves the cache, the scan rows,
\* the drone records and every socket's events as they were, and a validation
\* rejection is only ever sent from those steps.
C4_RejectedChangesNothing ==
  [][\A r \in Slots :
       /\ (reqs[r].pc \in {"received", "validateApiKey"} /\ reqs'[r] # reqs[r])
            => UNCHANGED <<lastScans, scans, drones, inbox, accepted>>
       /\ (reqs[r].pc # "done" /\ reqs'[r].pc = "done"
             /\ IsValidationRejection(reqs'[r].res))
            => reqs[r].pc \in {"received", "validateApiKey"}]_vars

\* an ingest claiming d2 with the key of d1 was rejected after a batch of d1 had
\* been cached: d1 has its entry, d2 has none
C4_Witness ==
  \E r \in Slots :
    /\ reqs[r].pc = "done" /\ reqs[r].via = "rest"
    /\ reqs[r].body.api_key = "k1" /\ reqs[r].body.drone_id = "d2"
    /\ reqs[r].res.status = "403"
    /\ MapHas(lastScans, "d1") /\ ~MapHas(lastScans, "d2")
    /\ inbox["c1"] # <<>>

\* the terminal state a response stands for
Terminal(res) ==
  IF res.success THEN "Acknowledged"
  ELSE IF res.error = "Invalid API key" THEN "InvalidApiKey"
  ELSE IF res.error = "Drone ID mismatch" THEN "IdentityMismatch"
  ELSE IF res.error \in {"Internal server error", "store error"} THEN "InternalError"
  ELSE "BadRequest"
\* where the checks of either transport end for body b, "" when they pass
RestChecks(b) ==
  IF RestMissingFields(b) THEN "BadRequest"
  ELSE LET res == RestValidate(b, validateApiKey(dbUp, apiKeys, b.api_key))
       IN IF res = NoRes THEN "" ELSE Terminal(res)
TrpcChecks(b) ==
  IF ~TrpcInputOk(b) THEN "BadRequest"
  ELSE LET res == TrpcValidate(b, validateApiKey(dbUp, apiKeys, b.api_key))
       IN IF res = NoRes THEN "" ELSE Terminal(res)

\* C5: the two transports run one state machine: the checks of both end alike
\* for the request at hand, and an ingest acknowledged on either transport has
\* upserted the drone, appended the scan row and written the cache entry that
\* a pull then returns.
C5_SameStateMachine ==
  \A r \in Slots :
    /\ reqs[r].pc # "idle" => RestChecks(reqs[r].body) = TrpcChecks(reqs[r].body)
    /\ (reqs[r].pc = "done" /\ reqs[r].res.success)
         => /\ MapHas(drones, reqs[r].body.drone_id)
            /\ scans # <<>> /\ Last(scans).droneId = reqs[r].body.drone_id
            /\ getLatest(lastScans, reqs[r].body.drone_id)
                 = Found(reqs[r].body.drone_id, Message(reqs[r].body))

\* the last publish of drone d that reached socket c, as an index into inbox[c]
LastUpdate(c, d) ==
  LET idx == {j \in 1..Len(inbox[c]) :
                /\ inbox[c][j].event = "pointcloud_update"
                /\ inbox[c][j].data.drone_id = d}
  IN IF idx = {} THEN 0 ELSE Max(idx)

\* C6: push and pull agree: when the last publish of drone d pushed the full
\* batch B to a socket, a pull for d returns B.
C6_PushPullAgree ==
  \A c \in connected, d \in Drones :
    LET j == LastUpdate(c, d)
    IN (j > 1 /\ inbox[c][j - 1].event = "pointcloud"
              /\ inbox[c][j - 1].data.drone_id = d)
         => getLatest(lastScans, d) = Found(d, inbox[c][j - 1].data)

\* the handler in slot r runs its last step: it stores and broadcasts the message
IsCommitStep(r) == reqs[r].pc = "commit" /\ reqs'[r].pc = "done"
\* what the step appends to the events of socket c
NewEvents(c) == SubSeq(inbox'[c], Len(inbox[c]) + 1, Len(inbox'[c]))
KeepsEvents(c) == SubSeq(inbox'[c], 1, Len(inbox[c])) = inbox[c]
EventsOf(q, name) == {j \in 1..Len(q) : q[j].event = name}

\* C7: a publish for drone X hands the full batch, once, to every socket that
\* is in the room of X, and to no other socket (one subscribed to another drone
\* only, or to none).
C7_FullBatchToMembersOnly ==
  [][\A r \in Slots :
       IsCommitStep(r) =>
         \A c \in Conns :
           LET full == EventsOf(NewEvents(c), "pointcloud")
           IN /\ KeepsEvents(c)
              /\ IF reqs[r].body.drone_id \in rooms[c]
                   THEN /\ Cardinality(full) = 1
                        /\ \A j \in full : NewEvents(c)[j].data = Message(reqs[r].body)
                   ELSE full = {}]_vars

HasEvent(c, name, d) ==
  \E j \in 1..Len(inbox[c]) : inbox[c][j].event = name /\ inbox[c][j].data.drone_id = d

\* a batch of some drone reached a subscriber of it, while a socket subscribed
\* to the other drone only saw the publish and did not get the batch
C7_Witness ==
  \E d \in Drones, c \in connected, o \in connected :
    /\ HasEvent(c, "pointcloud", d)
    /\ rooms[o] # {} /\ d \notin rooms[o]
    /\ HasEvent(o, "pointcloud_update", d) /\ ~HasEvent(o, "pointcloud", d)

\* C8: a publish hands one summary event to every connected socket, whatever it
\* has subscribed to, and the summary is exactly the drone id, the timestamp
\* and stats.point_count of the batch.
C8_SummaryToEveryone ==
  [][\A r \in Slots :
       IsCommitStep(r) =>
         \A c \in Conns :
           LET summaries == EventsOf(NewEvents(c), "pointcloud_update")
           IN IF c \in connected
                THEN /\ Cardinality(summaries) = 1
                     /\ \A j \in summaries :
                          NewEvents(c)[j].data =
                            [drone_id |-> reqs[r].body.drone_id,
                             timestamp |-> reqs[r].body.timestamp,
                             point_count |-> reqs[r].body.stats.v.point_count]
                ELSE NewEvents(c) = <<>>]_vars

\* a socket that has subscribed to nothing got the summary, and only the
\* summary, of a batch that a subscriber got in full
C8_Witness ==
  \E d \in Drones, c \in connected, o \in connected :
    /\ rooms[o] = {} /\ Len(inbox[o]) = 1
    /\ inbox[o][1].event = "pointcloud_update" /\ inbox[o][1].data.drone_id = d
    /\ HasEvent(c, "pointcloud", d)

\* C9: a socket is in the room of drone X only from a subscribe(X) of its own
\* until its next unsubscribe(X) or its disconnect; unsubscribing from a room
\* it is not in changes no room.
C9_LeftMeansNotMember ==
  [][\A c \in Conns, d \in Drones :
       /\ Unsubscribe(c, d) =>
            /\ c \notin membersOf(rooms', d)
            /\ c \notin membersOf(rooms, d) => rooms' = rooms
       /\ Disconnect(c) => c \notin membersOf(rooms', d)
       /\ (c \in membersOf(rooms', d) /\ c \notin membersOf(rooms, d))
            => Subscribe(c, d)]_vars

\* a socket got a batch of drone d, left the room, and the next publish of d
\* brought it the summary only
C9_Witness ==
  \E c \in connected, d \in Drones :
    /\ c \notin membersOf(rooms, d)
    /\ Len(inbox[c]) = 3
    /\ inbox[c][1].event = "pointcloud" /\ inbox[c][1].data.drone_id = d
    /\ inbox[c][3].event = "pointcloud_update" /\ inbox[c][3].data.drone_id = d

\* C10: a socket is in the room of at most one drone.
C10_AtMostOneSubscription == \A c \in Conns : Cardinality(rooms[c]) <= 1

\* the ingests of drone d answered with success on either transport
AcceptedFor(d) == {i \in 1..Len(accepted) : accepted[i].message.drone_id = d}
Absent(d) == [drone_id |-> d, status |-> "404", success |-> FALSE, data |-> <<>>]

\* C11: as long as no ingest of drone d has been accepted, the cache has no
\* entry for d and a pull for d is answered 404 with success false and no data,
\* whatever has been accepted or refused for other drones or refused for d.
C11_AbsentUntilAccepted ==
  \A d \in Drones :
    AcceptedFor(d) = {}
      => /\ ~MapHas(lastScans, d)
         /\ pulled.drone_id = d => pulled = Absent(d)

\* a pull for d1 was answered Absent after a batch of d2 had been accepted and
\* cached and an ingest naming d1 had been refused
C11_Witness ==
  /\ pulled = Absent("d1")
  /\ AcceptedFor("d1") = {} /\ RestAcceptedFor("d2") # {}
  /\ getLatest(lastScans, "d2").status = "200"
  /\ \E r \in Slots :
       /\ reqs[r].pc = "done" /\ reqs[r].body.drone_id = "d1"
       /\ reqs[r].res.status \in {"400", "403"}

\* the handler in slot r ends in one of its two store calls
IsStoreFailureStep(r) == reqs[r].pc \in {"upsertDrone", "insertScan"} /\ reqs'[r].pc = "done"

\* C12: when upsertDrone or insertScan fails in an ingest that passed its
\* checks, the request is answered with InternalError (500 over REST), no
\* socket receives anything, the cache and the list of accepted ingests stay as
\* they were; when it is insertScan that fails, no scan row is added and the
\* drone record written by upsertDrone for this request stays.
C12_StoreFailureNoBroadcast ==
  [][\A r \in Slots :
       IsStoreFailureStep(r) =>
         /\ ~reqs'[r].res.success
         /\ Terminal(reqs'[r].res) = "InternalError"
         /\ reqs[r].via = "rest" => reqs'[r].res.status = "500"
         /\ UNCHANGED <<inbox, lastScans, accepted>>
         /\ reqs[r].pc = "insertScan" =>
              /\ UNCHANGED <<drones, scans>>
              /\ MapHas(drones, reqs[r].body.drone_id)
              /\ drones[reqs[r].body.drone_id].lastSeen = NewDate(reqs[r].body.timestamp)]_vars

\* batch t1 of d1 was accepted over REST; the ingest of batch t2 then failed in
\* insertScan: it was answered 500, the drone record carries t2, there is one
\* scan row, the cache still holds t1 and the subscriber got nothing new
C12_Witness ==
  \E r \in Slots :
    /\ reqs[r].pc = "done" /\ reqs[r].via = "rest" /\ reqs[r].res.status = "500"
    /\ reqs[r].body.drone_id = "d1" /\ reqs[r].body.timestamp = "t2"
    /\ MapHas(drones, "d1") /\ drones["d1"].lastSeen = NewDate("t2")
    /\ Len(scans) = 1
    /\ MapHas(lastScans, "d1") /\ lastScans["d1"].timestamp = "t1"
    /\ Len(inbox["c1"]) = 2

MissingFieldsMessage == "Missing required fields: api_key, drone_id, timestamp, points, stats"
\* the 400 messages that name field f of the request body
NamesField(f) ==
  IF f = "points"
    THEN {MissingFieldsMessage, "points must be an array"}
           \cup {"points[" \o ToString(i) \o "]." \o g \o " must be a number" :
                   i \in 0..5, g \in {"angle", "distance", "quality", "x", "y"}}
  ELSE IF f = "stats"
    THEN {MissingFieldsMessage, "stats must be an object"}
           \cup {"stats." \o g \o " must be a number" :
                   g \in {"point_count", "valid_points", "min_distance", "max_distance",
                          "avg_distance", "avg_quality"}}
  ELSE {MissingFieldsMessage}
\* the top-level fields of b that are missing or do not have the documented shape
OffendingFields(b) ==
  {f \in {"api_key", "drone_id", "timestamp"} : b[f] = Undefined}
    \cup {f \in {"points"} :
            \/ b.points.t # "array"
            \/ \E i \in 1..Len(b.points.v) :
                 \/ IsNullPt(b.points.v[i])
                 \/ \E g \in {"angle", "distance", "quality", "x", "y"} :
                      b.points.v[i][g].t # "number"}
    \cup {f \in {"stats"} :
            \/ b.stats.t # "object"
            \/ \E g \in DOMAIN b.stats.v : b.stats.v[g].t # "number"}
\* the REST handler in slot r answers a request it refuses
IsRestRejectStep(r) ==
  /\ reqs[r].via = "rest" /\ reqs[r].pc # "done" /\ reqs'[r].pc = "done"
  /\ reqs'[r].res.status # "200"

\* C19: the REST ingest answers each refusal with the response of its reason
\* and no other: 401 exactly for a key the validator rejects, 403 exactly for a
\* key bound to another drone, 400 exactly for a missing or malformed field,
\* with a message that names such a field of the request, 500 exactly for a
\* failed store call; and a refusal never carries success true.
C19_RejectionResponses ==
  [][\A r \in Slots :
       IsRestRejectStep(r) =>
         LET b == reqs[r].body
             res == reqs'[r].res
             record == validateApiKey(dbUp, apiKeys, b.api_key)
         IN /\ ~res.success
            /\ res.status \in {"400", "401", "403", "500"}
            /\ res.status = "500" <=> reqs[r].pc \in {"upsertDrone", "insertScan"}
            /\ res.status = "401" => record = NoRecord /\ res.error = "Invalid API key"
            /\ res.status = "403" =>
                 /\ record # NoRecord /\ record.droneId # b.drone_id
                 /\ res.error = "Drone ID mismatch"
            /\ res.status = "400" =>
                 \E f \in OffendingFields(b) : res.error \in NamesField(f)]_vars

\* the handler in slot r answers a request before its checks have passed
IsCheckExit(r) == reqs[r].pc \in {"received", "validateApiKey"} /\ reqs'[r].pc = "done"
\* the answer reports a reason of the batch validator
IsBatchReason(res) ==
  \/ res.status = "400"
  \/ res.status = "throw" /\ res.error = "Input validation failed"

\* C20: the credential is validated before the batch: a request that carries a
\* key which validateApiKey rejects when the request is answered (unknown, or
\* inactive) is answered with InvalidApiKey whatever its payload, and a reason
\* of the batch validator is only reported for a key that validateApiKey accepts.
C20_CredentialBeforeBatch ==
  [][\A r \in Slots :
       IsCheckExit(r) =>
         LET b == reqs[r].body
             rejected == validateApiKey(dbUp, apiKeys, b.api_key) = NoRecord
         IN b.api_key # Undefined =>
              /\ rejected => IsInvalidApiKey(reqs[r].via, reqs'[r].res)
              /\ IsBatchReason(reqs'[r].res) => ~rejected]_vars

\* the position in accepted of the last ingest that committed message m, or 0
Rank(m) ==
  LET idx == {i \in 1..Len(accepted) : accepted[i].message = m}
  IN IF idx = {} THEN 0 ELSE Max(idx)

\* C14: the viewer's view only advances: while the effect is active, no push
\* event and no poll response replaces the batch shown by a batch that was
\* committed before it.
C14_MonotonicView ==
  [][(/\ viewer.phase = "active" /\ viewer'.phase = "active"
      /\ viewer.latestData # <<>> /\ viewer'.latestData # <<>>)
       => Rank(viewer'.latestData[1]) >= Rank(viewer.latestData[1])]_vars

InNoRoom(c) == \A d \in Drones : c \notin membersOf(rooms', d)

\* C15: teardown from any state of the effect leaves no poll timer running and
\* the socket closed; when the socket was connected it has emitted unsubscribe
\* for its drone and then disconnected, and once the server has handled what
\* the socket emitted the viewer's connection is in no room. This stays so
\* whatever happens after the teardown.
C15_TeardownReleases ==
  [][viewer'.phase = "closed" =>
       /\ ~viewer'.pollingInterval
       /\ viewer'.socketInstance \in {"closed", "null"}
       /\ (viewer.phase = "active" /\ viewer.socketInstance = "connected")
            => /\ Len(wire') >= 2
               /\ wire'[Len(wire') - 1] = [op |-> "unsubscribe", droneId |-> viewer.droneId]
               /\ wire'[Len(wire')].op = "disconnect"
       /\ wire' = <<>> => InNoRoom(ViewerConn)]_vars

\* the viewer was torn down while it was subscribed and pushing: unsubscribe
\* and disconnect are on their way and no timer runs
C15_Witness ==
  /\ viewer.phase = "closed" /\ ~viewer.pollingInterval
  /\ ViewerConn \in membersOf(rooms, viewer.droneId)
  /\ Len(wire) = 2 /\ wire[1].op = "unsubscribe"
  /\ viewer.latestData # <<>>

\* C16: the "connect" handler, on the first handshake or on a reconnect, stops
\* the poll timer and has emitted subscribe for the viewer's drone; in every
\* state, a viewer whose socket is connected has no poll timer running.
C16_UpgradeStopsPolling ==
  [][/\ viewer'.socketInstance = "connected" => ~viewer'.pollingInterval
     /\ (viewer.socketInstance # "connected" /\ viewer'.socketInstance = "connected")
          => /\ viewer'.phase = "active" /\ viewer'.connected
             /\ wire' = <<[op |-> "subscribe", droneId |-> viewer.droneId]>>]_vars

\* the socket connected while the viewer was polling: a poll request is still
\* in flight, the socket is connected and no timer runs
C16_Witness ==
  /\ viewer.phase = "active" /\ viewer.socketInstance = "connected"
  /\ ~viewer.pollingInterval
  /\ \E i \in 1..MaxFetches : fetches[i].st # "free"

\* C17: a disconnect of the connected socket, a failed handshake attempt and a
\* socket that cannot be created each leave the poll timer running and the
\* effect active; a running timer is only stopped by the "connect" handler or
\* by the cleanup; and while the viewer polls with a socket, the socket keeps
\* trying to connect.
C17_FallbackToPolling ==
  [][/\ (viewer.socketInstance = "connected" /\ viewer'.socketInstance = "disconnected")
          => viewer'.pollingInterval /\ viewer'.phase = "active"
     /\ ViewerConnectError => viewer'.pollingInterval /\ viewer'.phase = "active"
     /\ (viewer.phase = "init" /\ viewer'.phase = "active"
           /\ viewer'.socketInstance = "null") => viewer'.pollingInterval
     /\ (viewer.pollingInterval /\ ~viewer'.pollingInterval)
          => \/ viewer.socketInstance # "connected" /\ viewer'.socketInstance = "connected"
             \/ viewer.phase = "active" /\ viewer'.phase = "closed"
     /\ (viewer'.phase = "active" /\ viewer'.pollingInterval
           /\ viewer'.socketInstance # "null") => Retrying(viewer')]_vars

\* the viewer was pushed a batch, lost its connection and polls: a poll has
\* been answered with the cached batch
C17_Witness ==
  /\ viewer.phase = "active" /\ viewer.socketInstance = "disconnected"
  /\ viewer.pollingInterval /\ viewer.latestData # <<>>
  /\ \E i \in 1..MaxFetches : fetches[i].st = "answered" /\ fetches[i].res.status = "200"

\* C18: a poll that is answered 404, or that fails, leaves the timer, the
\* socket, the effect and the batch shown as they were; a poll answered with a
\* batch shows that batch, whatever the polls before it returned.
C18_AbsentKeepsPolling ==
  [][\A i \in 1..MaxFetches :
       /\ ((PollResolve(i) /\ fetches[i].res.status = "404") \/ PollFail(i))
            => /\ viewer'.pollingInterval = viewer.pollingInterval
               /\ viewer'.socketInstance = viewer.socketInstance
               /\ viewer'.phase = viewer.phase
               /\ viewer'.latestData = viewer.latestData
       /\ (PollResolve(i) /\ fetches[i].res.status = "200")
            => viewer'.latestData = fetches[i].res.data]_vars

\* a viewer without a socket showed batch t1 from a poll, then a poll failed
\* (the connected flag is off again); it still polls and shows t1, and a later
\* poll has been answered with batch t2
C18_Witness ==
  /\ viewer.phase = "active" /\ viewer.socketInstance = "null" /\ viewer.pollingInterval
  /\ ~viewer.connected
  /\ viewer.latestData # <<>> /\ viewer.latestData[1].timestamp = "t1"
  /\ \E i \in 1..MaxFetches :
       /\ fetches[i].st = "answered" /\ fetches[i].res.status = "200"
       /\ fetches[i].res.data[1].timestamp = "t2"

\* the viewer shows the i-th accepted ingest or one accepted after it
ShowsSince(i) == viewer.latestData # <<>> /\ Rank(viewer.latestData[1]) >= i
\* the handshake has failed and the viewer polls
FellBack == viewer.phase = "active" /\ viewer.socketInstance # "connected" /\ viewer.pollingInterval

\* C13: once the handshake of a viewer has failed and it polls, every batch of
\* its drone that the ingestion endpoint accepts from then on is eventually
\* shown by the viewer, or a batch accepted after it is.
C13_FallbackSurfacesBatch ==
  \A i \in 1..MaxScans :
    []((FellBack /\ Len(accepted) < i)
         => []((Len(accepted) >= i /\ accepted[i].message.drone_id = viewer.droneId)
                 => <>ShowsSince(i)))

\* the store holds what the two writes of the request in slot r leave behind
StoreWritesDone(r) ==
  /\ MapHas(drones, reqs[r].body.drone_id)
  /\ \E j \in 1..Len(scans) :
       /\ scans[j].droneId = reqs[r].body.drone_id
       /\ scans[j].timestamp = NewDate(reqs[r].body.timestamp)
\* some socket is sent a full batch in this step
SomePush == \E c \in Conns : EventsOf(NewEvents(c), "pointcloud") # {}

\* C21: the side effects of an accepted ingest come in the order upsert, scan
\* row, cache write, broadcast: the step that broadcasts a batch and
\* acknowledges it finds both store writes done and leaves the batch in the
\* cache under its drone, and the cache is written and sockets are sent a
\* batch in such a step only.
C21_CommitOrder ==
  [][/\ \A r \in Slots :
          IsCommitStep(r) =>
            /\ StoreWritesDone(r)
            /\ MapHas(lastScans', reqs[r].body.drone_id)
            /\ lastScans'[reqs[r].body.drone_id] = Message(reqs[r].body)
     /\ (lastScans' # lastScans \/ SomePush) => \E r \in Slots : IsCommitStep(r)]_vars

\* the order of the continuations of an ingest handler
PcOrder(pc) ==
  IF pc = "received" THEN 1 ELSE IF pc = "validateApiKey" THEN 2
  ELSE IF pc = "upsertDrone" THEN 3 ELSE IF pc = "insertScan" THEN 4
  ELSE IF pc = "commit" THEN 5 ELSE IF pc = "done" THEN 6 ELSE 0
\* b passes the batch validator: the fields are there, points is an array whose
\* sampled points are numeric, stats is an object of numbers
PassedBatchValidator(b) ==
  /\ TopLevelPresent(b)
  /\ b.points.t = "array" /\ b.stats.t = "object"
  /\ \A g \in DOMAIN b.stats.v : b.stats.v[g].t = "number"
  /\ \A i \in 1..Len(b.points.v) :
       i <= 5 => /\ ~IsNullPt(b.points.v[i])
                 /\ \A g \in {"angle", "distance", "quality", "x", "y"} :
                      b.points.v[i][g].t = "number"

\* C22: an ingest handler passes through its states in order, without skipping
\* or revisiting one, or leaves them for its response; a request that has been
\* received is eventually answered; the answer is either the acknowledgement or
\* a rejection with a reason, and it is the acknowledgement only when the key
\* was found active and bound to the claimed drone, the payload passed the
\* batch validator and both store writes were done.
C22_OneTerminalState ==
  /\ [][\A r \in Slots :
          /\ reqs'[r].pc # reqs[r].pc =>
               \/ reqs[r].pc \in {"idle", "done"} /\ reqs'[r].pc = "received"
               \/ InFlight(r) /\ reqs'[r].pc = "done"
               \/ InFlight(r) /\ PcOrder(reqs'[r].pc) = PcOrder(reqs[r].pc) + 1
          /\ reqs'[r].pc = "done" =>
               /\ reqs'[r].res # NoRes
               /\ reqs'[r].res.success <=> reqs'[r].res.status \in {"200", "return"}
               /\ ~reqs'[r].res.success => reqs'[r].res.error # ""
          /\ (InFlight(r) /\ reqs'[r].pc = "done" /\ reqs'[r].res.success) =>
               /\ reqs[r].pc = "commit"
               /\ reqs[r].apiKeyRecord.isActive
               /\ reqs[r].apiKeyRecord.key = reqs[r].body.api_key
               /\ reqs[r].apiKeyRecord.droneId = reqs[r].body.drone_id
               /\ PassedBatchValidator(reqs[r].body)
               /\ StoreWritesDone(r)]_vars
  /\ \A r \in Slots : (reqs[r].pc = "received") ~> (reqs[r].pc = "done")

\* a REST request whose sixth point is malformed has been acknowledged, after
\* a request refused for its key
C22_Witness ==
  \E r \in Slots :
    /\ reqs[r].pc = "done" /\ reqs[r].via = "rest" /\ reqs[r].res.success
    /\ reqs[r].body.points = SixPoints
    /\ Len(scans) = 2

\* the sampled points of b that are malformed: null, or with a field that is
\* no number
MalformedSampled(b) ==
  {i \in 1..Len(b.points.v) :
     /\ i <= 5
     /\ \/ IsNullPt(b.points.v[i])
        \/ \E g \in {"angle", "distance", "quality", "x", "y"} : b.points.v[i][g].t # "number"}
\* the messages that name the first offending field of point i (counted from 1)
NamesPointField(b, i) ==
  LET pt == b.points.v[i]
      fields == <<"angle", "distance", "quality", "x", "y">>
      bad == IF IsNullPt(pt) THEN 1..5 ELSE {k \in 1..5 : pt[fields[k]].t # "number"}
  IN {"points[" \o ToString(i - 1) \o "]." \o fields[Min(bad)] \o " must be a number"}
\* the REST request in slot r has come to the point validation: its key is
\* active and bound to its drone, points is an array, stats an object of numbers
AtPointValidation(r) ==
  LET b == reqs[r].body
      record == validateApiKey(dbUp, apiKeys, b.api_key)
  IN /\ reqs[r].via = "rest" /\ reqs[r].pc = "validateApiKey"
     /\ record # NoRecord /\ record.droneId = b.drone_id
     /\ b.points.t = "array" /\ b.stats.t = "object"
     /\ \A g \in DOMAIN b.stats.v : b.stats.v[g].t = "number"

\* C23: the REST handler validates the first five points only: a request that
\* has come to the point validation is answered 400 naming points[i].field for
\* the lowest malformed point among the first five and its first offending
\* field, and goes on to be stored when there is none; what is then cached is
\* the points array as it was received, malformed later points included.
C23_SamplingValidation ==
  [][\A r \in Slots :
       /\ (AtPointValidation(r) /\ reqs'[r].pc # reqs[r].pc) =>
            IF MalformedSampled(reqs[r].body) # {}
              THEN /\ reqs'[r].pc = "done" /\ reqs'[r].res.status = "400"
                   /\ reqs'[r].res.error \in
                        NamesPointField(reqs[r].body, Min(MalformedSampled(reqs[r].body)))
              ELSE reqs'[r].pc = "upsertDrone"
       /\ (IsCommitStep(r) /\ reqs[r].via = "rest") =>
            lastScans'[reqs[r].body.drone_id].points = reqs[r].body.points.v]_vars

\* the event the viewer's socket handles next is a full batch of another drone
NextEventIsForeign ==
  /\ seen < Len(inbox[ViewerConn])
  /\ inbox[ViewerConn][seen + 1].event = "pointcloud"
  /\ inbox[ViewerConn][seen + 1].data.drone_id # viewer.droneId

\* C24: the batch a viewer of drone X shows has drone_id X, and handling a
\* pushed batch of another drone leaves the batch shown as it was.
C24_OnlyOwnSource ==
  [][/\ viewer'.latestData # <<>> => viewer'.latestData[1].drone_id = viewer'.droneId
     /\ (ViewerPush /\ NextEventIsForeign) => viewer'.latestData = viewer.latestData]_vars

\* the viewer of d1 shows a batch of d1 after its socket handled a pushed
\* batch of d2
C24_Witness ==
  /\ viewer.droneId = "d1" /\ viewer.latestData # <<>>
  /\ \E j \in 1..seen, k \in 1..seen :
       /\ j < k
       /\ inbox[ViewerConn][j].event = "pointcloud"
       /\ inbox[ViewerConn][j].data = viewer.latestData[1]
       /\ inbox[ViewerConn][k].event = "pointcloud"
       /\ inbox[ViewerConn][k].data.drone_id = "d2"

\* the viewer's subscribe is on its way to the server
SubscribePending ==
  wire # <<>> /\ Head(wire) = [op |-> "subscribe", droneId |-> viewer.droneId]

\* C25: while the viewer's socket is connected, after the first handshake or
\* after any reconnect, its subscribe is on the way to the server or its
\* connection is in the room of its drone; and a publish for that drone hands
\* the batch to a connection that is in the room.
C25_SubscribedWhenConnected ==
  [][/\ (viewer'.phase = "active" /\ viewer'.socketInstance = "connected")
          => \/ SubscribePending'
             \/ ViewerConn \in membersOf(rooms', viewer'.droneId)
     /\ \A r \in Slots :
          (/\ IsCommitStep(r)
           /\ viewer.socketInstance = "connected"
           /\ reqs[r].body.drone_id = viewer.droneId
           /\ ViewerConn \in membersOf(rooms, viewer.droneId))
            => /\ Len(inbox'[ViewerConn]) > Len(inbox[ViewerConn])
               /\ inbox'[ViewerConn][Len(inbox[ViewerConn]) + 1]
                    = PointCloudEvent(Message(reqs[r].body))]_vars

\* the viewer was pushed a batch that only its socket can have brought (it was
\* ingested over tRPC), lost the connection, reconnected, is in the room again
\* and has been sent the next batch
C25_Witness ==
  /\ viewer.phase = "active" /\ viewer.socketInstance = "connected" /\ wire = <<>>
  /\ ViewerConn \in membersOf(rooms, viewer.droneId)
  /\ Len(accepted) = 2 /\ accepted[1].via = "trpc"
  /\ accepted[1].message # accepted[2].message
  /\ viewer.latestData = <<accepted[1].message>>
  /\ Len(inbox[ViewerConn]) = 2
  /\ inbox[ViewerConn][1] = PointCloudEvent(accepted[2].message)

\* the sources of the accepted ingests
AcceptedSources(acc) == {acc[i].message.drone_id : i \in 1..Len(acc)}

\* C26: a cache entry is replaced, never evicted and never appended to: a source
\* that has an entry keeps one, so a pull that returned a batch for a source is
\* followed only by pulls that return a batch for it; the entry of a source is
\* one accepted batch of that source; and only sources with an accepted ingest
\* have an entry.
C26_ReplacedNeverEvicted ==
  [][/\ DOMAIN lastScans \subseteq DOMAIN lastScans'
     /\ pulled'.success => MapHas(lastScans', pulled'.drone_id)
     /\ \A d \in Drones :
          (Pull(d) /\ MapHas(lastScans, d))
            => pulled'.success /\ Len(pulled'.data) = 1 /\ pulled'.data[1].drone_id = d
     /\ \A x \in DOMAIN lastScans' :
          \E i \in 1..Len(accepted') :
            /\ accepted'[i].message = lastScans'[x]
            /\ accepted'[i].message.drone_id = x
     /\ DOMAIN lastScans' \subseteq AcceptedSources(accepted')]_vars

\* a batch of d2 and then one of d1 were accepted over REST: both sources have
\* an entry, and a pull of d2 still returns d2's batch
C26_Witness ==
  /\ Len(accepted) = 2
  /\ accepted[1].via = "rest" /\ accepted[2].via = "rest"
  /\ accepted[1].message.drone_id = "d2" /\ accepted[2].message.drone_id = "d1"
  /\ DOMAIN lastScans = {"d1", "d2"}
  /\ lastScans["d2"] = accepted[1].message
  /\ pulled.success /\ pulled.drone_id = "d2" /\ pulled.data = <<accepted[1].message>>

\* the drone record an ingest of body b writes
DroneRecordOf(b) == [lastSeen |-> NewDate(b.timestamp), isActive |-> TRUE]

\* C27: the drone record of a source is created by the upsert of the first
\* ingest that gets that far and is rewritten by every later one: when an
\* ingest is accepted the record of its source exists, is live and carries the
\* batch's timestamp as last-seen; the records are keyed by source, only the
\* upsert of an ingest writes them, it writes the record of its own source
\* only, and no step of any ingest, accepted or rejected, removes one.
C27_DroneRecordLifecycle ==
  [][/\ DOMAIN drones \subseteq DOMAIN drones'
     /\ drones' # drones => \E r \in Slots : reqs[r].pc = "upsertDrone"
     /\ \A r \in Slots :
          /\ (reqs[r].pc = "upsertDrone" /\ reqs'[r].pc = "insertScan")
               => drones' = MapSet(drones, reqs[r].body.drone_id, DroneRecordOf(reqs[r].body))
          /\ IsCommitStep(r)
               => /\ MapHas(drones', reqs[r].body.drone_id)
                  /\ drones'[reqs[r].body.drone_id] = DroneRecordOf(reqs[r].body)]_vars

\* batch t1 and then batch t2 of d1 were accepted: d1 has the one record, live,
\* with t2 as last-seen
C27_Witness ==
  /\ Len(accepted) = 2
  /\ accepted[1].message.drone_id = "d1" /\ accepted[1].message.timestamp = "t1"
  /\ accepted[2].message.drone_id = "d1" /\ accepted[2].message.timestamp = "t2"
  /\ DOMAIN drones = {"d1"}
  /\ drones["d1"] = [lastSeen |-> NewDate("t2"), isActive |-> TRUE]

\* the events of socket c that the step adds are about drone d and built from
\* message m
OnlyAdds(c, d, m) ==
  /\ Len(inbox'[c]) >= Len(inbox[c])
  /\ SubSeq(inbox'[c], 1, Len(inbox[c])) = inbox[c]
  /\ \A j \in (Len(inbox[c]) + 1)..Len(inbox'[c]) :
       /\ inbox'[c][j] \in {PointCloudEvent(m), UpdateEvent(m)}
       /\ inbox'[c][j].data.drone_id = d

\* C28: the cache entry under X is a batch of X; the cache and the sockets
\* change only when an ingest commits, and a committing ingest carried a key
\* that validateApiKey found active and bound to the drone the batch names, so
\* it changes the cache entry of that drone only and sends events about that
\* drone only: a request whose key is bound to another source changes nothing
\* that is cached or pushed for X.
C28_AuthenticData ==
  [][/\ \A x \in DOMAIN lastScans' : lastScans'[x].drone_id = x
     /\ \A r \in Slots :
          IsCommitStep(r) =>
            /\ reqs[r].apiKeyRecord.key = reqs[r].body.api_key
            /\ reqs[r].apiKeyRecord.isActive
            /\ reqs[r].apiKeyRecord.droneId = reqs[r].body.drone_id
            /\ reqs[r].body.api_key \in DOMAIN KeyDrone
            /\ KeyDrone[reqs[r].body.api_key] = reqs[r].body.drone_id
     /\ (lastScans' # lastScans \/ inbox' # inbox) =>
          \E r \in Slots :
            /\ IsCommitStep(r)
            /\ \A x \in DOMAIN lastScans' \ {reqs[r].body.drone_id} :
                 x \in DOMAIN lastScans /\ lastScans'[x] = lastScans[x]
            /\ \A c \in Conns :
                 OnlyAdds(c, reqs[r].body.drone_id, Message(reqs[r].body))
            /\ \A c \in Conns \ membersOf(rooms, reqs[r].body.drone_id) :
                 \A j \in 1..Len(inbox'[c]) : inbox'[c][j].event = "pointcloud" =>
                   j <= Len(inbox[c])]_vars

\* a batch of d1 was accepted over REST with k1, k1 was revoked, and a request
\* naming d1 with the key of d2 was then refused: the cache and the subscriber
\* of d1 still hold the accepted batch and nothing else
C28_Witness ==
  /\ Len(accepted) = 1 /\ accepted[1].via = "rest"
  /\ accepted[1].message.drone_id = "d1"
  /\ ~apiKeys["k1"].isActive
  /\ \E r \in Slots :
       /\ reqs[r].pc = "done" /\ ~reqs[r].res.success
       /\ reqs[r].body.api_key = "k2" /\ reqs[r].body.drone_id = "d1"
  /\ lastScans = MapSet(<<>>, "d1", accepted[1].message)
  /\ inbox["c1"] = <<PointCloudEvent(accepted[1].message), UpdateEvent(accepted[1].message)>>

\* the full batches socket c has been pushed, in order
Pushed(c) ==
  LET RECURSIVE Batches(_)
      Batches(ev) ==
        IF ev = <<>> THEN <<>>
        ELSE IF Head(ev).event = "pointcloud"
          THEN <<Head(ev).data>> \o Batches(Tail(ev))
          ELSE Batches(Tail(ev))
  IN Batches(inbox[c])

\* C29: when the REST ingest of B1 (slot 1) was being handled before the REST
\* ingest of B2 (slot 2) of the same source arrived, and both have been
\* acknowledged, the cache entry of the source is B2 and its subscriber was
\* pushed B1 and then B2.
C29_ArrivalOrderKept ==
  (/\ reqs[1].pc = "done" /\ reqs[1].via = "rest" /\ reqs[1].res.success
   /\ reqs[2].pc = "done" /\ reqs[2].via = "rest" /\ reqs[2].res.success
   /\ reqs[1].body.drone_id = reqs[2].body.drone_id
   /\ Message(reqs[1].body) # Message(reqs[2].body))
    => /\ MapHas(lastScans, reqs[2].body.drone_id)
       /\ lastScans[reqs[2].body.drone_id] = Message(reqs[2].body)
       /\ Pushed("c1") = <<Message(reqs[1].body), Message(reqs[2].body)>>

\* C30: once the effect has been cleaned up, nothing it started changes the
\* batch the viewer shows: no push event and no response of a poll request that
\* was in flight when it was cleaned up.
C30_ClosedDeliversNothing ==
  [][viewer.phase = "closed" => viewer'.latestData = viewer.latestData]_vars

\* C31: the effect has at most one poll timer running and the variable
\* pollingInterval holds it: a timer is created only when none is running,
\* whichever of connect_error, disconnect and the failure of io() calls
\* startPolling and however often, and a connect or the cleanup leaves no timer
\* running.
C31_OnePollTimer ==
  [][/\ viewer'.timers <= 1
     /\ viewer'.pollingInterval <=> viewer'.timers = 1
     /\ viewer'.timers > viewer.timers => viewer.timers = 0
     /\ (ViewerConnectError /\ viewer.timers = 1) => viewer'.timers = 1
     /\ ViewerConnect => viewer'.timers = 0
     /\ ViewerTeardown => viewer'.timers = 0]_vars

\* the viewer was connected (it shows a batch that only a push can have
\* brought), lost the connection and fell back to polling: one timer runs, it
\* has fired for every poll request in flight, and the socket is retrying
C31_Witness ==
  /\ viewer.phase = "active" /\ viewer.socketInstance = "disconnected"
  /\ viewer.pollingInterval /\ viewer.timers = 1
  /\ Len(accepted) >= 1 /\ accepted[1].via = "trpc"
  /\ viewer.latestData = <<accepted[1].message>>
  /\ \A i \in 1..MaxFetches : fetches[i].st # "free"
  /\ ENABLED ViewerConnectError
====
